---------------------------- MODULE Spec2Model ----------------------------
(***************************************************************************)
(* Model of streamlit_app.py: the identifier cleaners, file-type          *)
(* detection, the per-file configuration kept in the session state, and   *)
(* the upload loop.                                                        *)
(*                                                                         *)
(* Python strings are modelled as sequences of one-character strings, so  *)
(* that strip / upper / re.sub / splitext are computed character by       *)
(* character as the code computes them.                                    *)
(***************************************************************************)
EXTENDS Integers, Sequences, FiniteSets, TLC

VARIABLES
    \* ---- identifier cleaning (pure functions) ----
    clean_in,        \* the raw name handed to the cleaners
    col_pass,        \* successive results of clean_column_name, first on clean_in
    tbl_pass,        \* successive results of clean_table_name, first on clean_in
    \* ---- file type detection (pure function) ----
    type_in,         \* the filename handed to get_file_type
    type_out,        \* <<>> before the call, <<result>> after it
    \* ---- optional decoders (module import time) ----
    EXCEL_SUPPORT,   \* openpyxl importable
    XLS_SUPPORT,     \* xlrd importable
    \* ---- the session: widgets and st.session_state ----
    uploaded_files,     \* st.file_uploader: sequence of [name, bytes]
    csv_delimiter,      \* sidebar selectbox "Delimiter"
    csv_has_header,     \* sidebar checkbox "Has Header Row"
    csv_quote_char,     \* sidebar selectbox "Quote Character"
    table_name_input,   \* text typed into st.text_input table_name_{i}, by position
    file_configs,       \* st.session_state.file_configs: filename -> config dict
    interactions,       \* number of user interactions so far (bounded)
    \* ---- the upload loop of one "Upload All Files" click ----
    pc,                 \* "idle" | "loop" | "done"
    idx,                \* position of the file the loop is at (i + 1)
    successful_uploads, \* the loop's counter
    status,             \* per file position: the terminal statuses shown for it
    progress,           \* << numerator, denominator >> last given to progress_bar
    summary,            \* the final status message, << >> until shown
    write_attempts,     \* file positions for which create_dataframe was called
    applied_columns,    \* file position -> df.columns assigned at the rename step
    tables              \* the warehouse: qualified table name -> relation

pure_vars    == << clean_in, col_pass, tbl_pass, type_in, type_out >>
decoder_vars == << EXCEL_SUPPORT, XLS_SUPPORT >>
widget_vars  == << uploaded_files, csv_delimiter, csv_has_header, csv_quote_char,
                   table_name_input >>
loop_vars    == << pc, idx, successful_uploads, status, progress, summary,
                   write_attempts, applied_columns >>
session_vars == << widget_vars, file_configs, interactions, loop_vars, tables >>

vars == << pure_vars, decoder_vars, session_vars >>

-----------------------------------------------------------------------------
(* Bounds *)

MaxNameLen == 4      \* longest raw name handed to the cleaners
MaxStemLen == 2      \* longest filename stem in front of the suffix
MaxFiles == 2        \* most files in the uploader at once
MaxInteractions == 3 \* user interactions explored in one session

-----------------------------------------------------------------------------
(* Characters *)

LowerLetters == << "a","b","c","d","e","f","g","h","i","j","k","l","m",
                   "n","o","p","q","r","s","t","u","v","w","x","y","z" >>
UpperLetters == << "A","B","C","D","E","F","G","H","I","J","K","L","M",
                   "N","O","P","Q","R","S","T","U","V","W","X","Y","Z" >>

Range(f) == { f[i] : i \in DOMAIN f }

\* Op applied to x, with x evaluated once
Via(Op(_), x) == CHOOSE r \in { Op(v) : v \in { x } } : TRUE

\* the element of a one-element set: Only({ e(v) : v \in { x } }) is e(x)
\* with x evaluated once
Only(S) == CHOOSE r \in S : TRUE

Digits     == { "0","1","2","3","4","5","6","7","8","9" }
Whitespace == { " ", "\t", "\n", "\r" }
Hyphen     == "-"
\* the character class of the second re.sub of clean_column_name (its
\* backquote has no TLA+ string literal and is in no name of the model)
StrippedPunct == { "(", ")", "[", "]", "{", "}", ".", "?", "/", "\\", "'", "\"",
                   ":", ";", ",", "!", "@", "#", "$", "%", "^", "&", "*", "~" }

\* str.upper() / str.lower() on one character
UpperOf == [ c \in Range(LowerLetters) |->
               UpperLetters[CHOOSE i \in DOMAIN LowerLetters : LowerLetters[i] = c] ]
LowerOf == [ c \in Range(UpperLetters) |->
               LowerLetters[CHOOSE i \in DOMAIN UpperLetters : UpperLetters[i] = c] ]
upper_char(c) == IF c \in DOMAIN UpperOf THEN UpperOf[c] ELSE c
lower_char(c) == IF c \in DOMAIN LowerOf THEN LowerOf[c] ELSE c

upper(s) == [ i \in DOMAIN s |-> upper_char(s[i]) ]
lower(s) == [ i \in DOMAIN s |-> lower_char(s[i]) ]

\* str.strip(): drop leading and trailing whitespace
RECURSIVE lstrip(_)
lstrip(s) == IF s # <<>> /\ Head(s) \in Whitespace THEN lstrip(Tail(s)) ELSE s

RECURSIVE rstrip(_)
rstrip(s) ==
    IF s # <<>> /\ s[Len(s)] \in Whitespace
    THEN rstrip(SubSeq(s, 1, Len(s) - 1))
    ELSE s

strip(s) == Via(rstrip, Via(lstrip, s))

\* re.sub of \s+|- by '_': a maximal run of whitespace becomes one
\* underscore; each hyphen is a match of its own and becomes one underscore
RECURSIVE sub_space_hyphen(_)
sub_space_hyphen(s) ==
    IF s = <<>> THEN <<>>
    ELSE IF Head(s) \in Whitespace THEN << "_" >> \o sub_space_hyphen(lstrip(s))
    ELSE IF Head(s) = Hyphen THEN << "_" >> \o sub_space_hyphen(Tail(s))
    ELSE << Head(s) >> \o sub_space_hyphen(Tail(s))

\* re.sub of the punctuation class by the empty string
strip_punct(s) == SelectSeq(s, LAMBDA c : c \notin StrippedPunct)

\* re.sub of [^A-Z0-9_] by '_'
IdentChars == Range(UpperLetters) \cup Digits \cup { "_" }
sub_non_ident(s) == [ i \in DOMAIN s |-> IF s[i] \in IdentChars THEN s[i] ELSE "_" ]

\* if name and name[0].isdigit(): name = '_' + name
prefix_digit(s) == IF s # <<>> /\ Head(s) \in Digits THEN << "_" >> \o s ELSE s

UNNAMED_COLUMN == << "U","N","N","A","M","E","D","_","C","O","L","U","M","N" >>
UNNAMED_TABLE  == << "U","N","N","A","M","E","D","_","T","A","B","L","E" >>

or_unnamed_column(n) == IF n = << >> THEN UNNAMED_COLUMN ELSE n
or_unnamed_table(n)  == IF n = << >> THEN UNNAMED_TABLE ELSE n

\* faulty variant: the leading-digit check runs before the punctuation is stripped
clean_column_name_digit_first(name) ==
    Via(or_unnamed_column,
        Via(strip_punct, Via(prefix_digit, Via(sub_space_hyphen, Via(upper, strip(name))))))

\* strip, upper, the two re.sub, the digit prefix, the empty-name fallback
clean_column_name(name) ==
    Via(or_unnamed_column,
        Via(prefix_digit, Via(strip_punct, Via(sub_space_hyphen, Via(upper, strip(name))))))

\* faulty variant: a leading digit is left without its underscore
clean_table_name_no_prefix(name) ==
    Via(or_unnamed_table, Via(sub_non_ident, Via(upper, strip(name))))

\* strip, upper, the re.sub, the digit prefix, the empty-name fallback
clean_table_name(name) ==
    Via(or_unnamed_table, Via(prefix_digit, Via(sub_non_ident, Via(upper, strip(name)))))

-----------------------------------------------------------------------------
(* File type detection *)

Str_csv   == << ".", "c", "s", "v" >>
Str_txt   == << ".", "t", "x", "t" >>
Str_xlsx  == << ".", "x", "l", "s", "x" >>
Str_xls   == << ".", "x", "l", "s" >>
Str_comma_xls == << ",", " ", ".", "x", "l", "s" >>     \* the literal ", .xls"

\* excel_extensions as built at import time
excel_extensions(xlsx, xls) ==
    LET e1 == IF xlsx THEN << Str_xlsx >> ELSE << >>
    IN  IF xls
        THEN IF e1 # << >> THEN Append(e1, Str_comma_xls) ELSE Append(e1, Str_xls)
        ELSE e1

\* SUPPORTED_FILE_TYPES in insertion order: << type, extensions >>
SUPPORTED_FILE_TYPES(xlsx, xls) ==
    << [ type |-> "csv", extensions |-> << Str_csv >> ],
       [ type |-> "txt", extensions |-> << Str_txt >> ] >>
    \o ( IF xlsx \/ xls
         THEN << [ type |-> "excel", extensions |-> excel_extensions(xlsx, xls) ] >>
         ELSE << >> )

\* str.rfind(c): the last index of c in s, 0 when absent (1-based)
rfind(s, c) ==
    IF \E i \in DOMAIN s : s[i] = c
    THEN CHOOSE i \in DOMAIN s : s[i] = c /\ \A j \in DOMAIN s : s[j] = c => j <= i
    ELSE 0

\* os.path.splitext(p): << root, ext >>.  The extension starts at the last
\* dot of the last path component, unless only dots precede it there.
splitext(p) ==
    LET sepIndex == rfind(p, "/")
        dotIndex == rfind(p, ".")
    IN  IF dotIndex > sepIndex
           /\ \E k \in (sepIndex + 1) .. (dotIndex - 1) : p[k] # "."
        THEN << SubSeq(p, 1, dotIndex - 1), SubSeq(p, dotIndex, Len(p)) >>
        ELSE << p, << >> >>

None == "None"

\* get_file_type(filename): the first type whose extension list holds ext
get_file_type(filename, xlsx, xls) ==
    Only({ IF \A i \in DOMAIN types : ext \notin Range(types[i].extensions) THEN None
           ELSE types[CHOOSE i \in DOMAIN types :
                        /\ ext \in Range(types[i].extensions)
                        /\ \A j \in 1 .. (i - 1) : ext \notin Range(types[j].extensions)].type :
           ext \in { splitext(lower(filename))[2] },
           types \in { SUPPORTED_FILE_TYPES(xlsx, xls) } })

-----------------------------------------------------------------------------
(* Parsing: read_file_to_dataframe *)

\* File bytes are modelled as the sequence of their lines.  A DataFrame is
\* [columns, rows]; a raised exception is [ok |-> FALSE].

PreviewRows == 10

DigitStr == << "0","1","2","3","4","5","6","7","8","9" >>
\* str(k) of a positional column label k (header=None), k < 10
int_str(k) == << DigitStr[k + 1] >>

\* One line split into fields as the pandas tokenizer does: the quote
\* character toggles the quoted state and is dropped, the delimiter separates
\* fields outside quotes, blanks ahead of a field's first character are
\* skipped (skipinitialspace).
fields(line, delim, quote) ==
    LET quoted(p)  == Cardinality({ q \in 1 .. (p - 1) : line[q] = quote }) % 2 = 1
        cuts       == { p \in DOMAIN line : line[p] = delim /\ line[p] # quote /\ ~quoted(p) }
        first(j)   == IF j = 1 THEN 1
                      ELSE 1 + CHOOSE p \in cuts :
                                 Cardinality({ q \in cuts : q < p }) = j - 2
        last(j)    == IF j = Cardinality(cuts) + 1 THEN Len(line)
                      ELSE (CHOOSE p \in cuts :
                                 Cardinality({ q \in cuts : q < p }) = j - 1) - 1
        skipped(p, from) ==
            /\ line[p] = " " /\ ~quoted(p)
            /\ \A q \in from .. (p - 1) : line[q] = quote \/ (line[q] = " " /\ ~quoted(q))
        kept(j)    == { p \in first(j) .. last(j) :
                          line[p] # quote /\ ~skipped(p, first(j)) }
        field(j)   == [ n \in 1 .. Cardinality(kept(j)) |->
                          line[CHOOSE p \in kept(j) :
                                 Cardinality({ q \in kept(j) : q < p }) = n - 1] ]
    IN  [ j \in 1 .. (Cardinality(cuts) + 1) |-> field(j) ]

Min(a, b) == IF a <= b THEN a ELSE b

\* pd.read_csv(input_stream, delimiter, header, quotechar, ...): no bytes at
\* all raise EmptyDataError; header=0 takes the first line as column names,
\* header=None labels the columns 0..k-1
read_csv(bytes, delim, header0, quote) ==
    IF bytes = << >> THEN [ ok |-> FALSE ]
    ELSE Only({ IF header0
                THEN [ ok |-> TRUE, columns |-> records[1],
                       rows |-> SubSeq(records, 2, Len(records)) ]
                ELSE [ ok |-> TRUE,
                       columns |-> [ k \in 1 .. Len(records[1]) |-> int_str(k - 1) ],
                       rows |-> records ] :
                records \in { [ r \in DOMAIN bytes |-> fields(bytes[r], delim, quote) ] } })

\* pd.read_excel(input_stream, engine): the first sheet, first row as header;
\* the sheet's cells are modelled as the ','-separated fields of each line.
\* The csv options play no part.
read_excel(bytes, engine) ==
    IF bytes = << >> THEN [ ok |-> TRUE, columns |-> << >>, rows |-> << >> ]
    ELSE Only({ [ ok |-> TRUE, columns |-> cells[1], rows |-> SubSeq(cells, 2, Len(cells)) ] :
                cells \in { [ r \in DOMAIN bytes |-> fields(bytes[r], ",", "\"") ] } })

\* filename.endswith(suffix)
endswith(s, suffix) ==
    Len(s) >= Len(suffix) /\ SubSeq(s, Len(s) - Len(suffix) + 1, Len(s)) = suffix

\* csv_options is a dict, or None: None is the dict without keys
NoOptions == << >>
DEFAULT_CSV_OPTIONS ==
    [ field_delimiter |-> ",", skip_header |-> 1,
      field_optionally_enclosed_by |-> "\"", trim_space |-> TRUE ]

\* the engine of the excel branch taken for filename, None for the else branch
excel_engine(filename, xlsx, xls) ==
    IF endswith(filename, Str_xlsx) /\ xlsx THEN "openpyxl"
    ELSE IF endswith(filename, Str_xls) /\ xls THEN "xlrd"
    ELSE None

read_file_to_dataframe(uploaded_file, file_type, csv_options_arg, xlsx, xls) ==
    IF file_type = "excel"
    THEN Only({ IF engine = None THEN [ ok |-> FALSE ]
                ELSE read_excel(uploaded_file.bytes, engine) :
                engine \in { excel_engine(lower(uploaded_file.name), xlsx, xls) } })
    ELSE IF file_type \in { "csv", "txt" }
    THEN Only({ read_csv(uploaded_file.bytes, csv_options.field_delimiter,
                         csv_options.skip_header = 1,
                         csv_options.field_optionally_enclosed_by) :
                csv_options \in { IF DOMAIN csv_options_arg = {} THEN DEFAULT_CSV_OPTIONS
                                  ELSE csv_options_arg } })
    ELSE [ ok |-> FALSE ]

\* faulty variant: only the columns are looked at
df_empty_no_columns(df) == df.columns = << >>

\* df.empty: no rows or no columns
df_empty(df) == df.rows = << >> \/ df.columns = << >>

-----------------------------------------------------------------------------
(* The script run up to the upload button: sidebar and configure loop *)

\* current_csv_options, built from the sidebar widgets
current_csv_options(delim, has_header, quote) ==
    [ field_delimiter |-> delim, skip_header |-> IF has_header THEN 1 ELSE 0,
      field_optionally_enclosed_by |-> quote, trim_space |-> TRUE ]

NoEdit == [ file |-> 0, col |-> 0, text |-> << >> ]

\* dict assignment config[key] = value
SetKey(config, key, value) == (key :> value) @@ config

\* faulty variant: the preview is loaded again in every run
needs_preview_always(config) == TRUE

\* the guard of the automatic preview loading
needs_preview(config) == "original_columns" \notin DOMAIN config

\* the preview loading block: the keys are assigned in order once the read
\* has succeeded; a failed read leaves the config as it was
load_preview(config, df) ==
    IF ~df.ok THEN config
    ELSE Only({ SetKey(SetKey(SetKey(SetKey(SetKey(config,
                    "original_columns", df.columns),
                    "cleaned_columns", cleaned),
                    "custom_columns", IF "custom_columns" \notin DOMAIN config
                                      THEN cleaned ELSE config.custom_columns),
                    "num_rows", Len(df.rows)),
                    "preview_head", SubSeq(df.rows, 1, Min(PreviewRows, Len(df.rows)))) :
                cleaned \in { [ k \in DOMAIN df.columns |->
                                  clean_column_name(df.columns[k]) ] } })

\* pd.DataFrame({'Original': ..., 'Rename To': ...}) raises ValueError when
\* the two lists differ in length; nothing catches it and the run ends there
editor_shown(config) == "original_columns" \in DOMAIN config /\ config.num_rows # 0
editor_raises(config) ==
    editor_shown(config) /\ Len(config.custom_columns) # Len(config.original_columns)

\* st.data_editor over the frame {'Original', 'Rename To'}: the rows are
\* fixed, one per original column; a pending edit replaces one 'Rename To'
\* cell.  The result is edited_df['Rename To'].tolist().
edited_rename_to(config, edit, pos) ==
    [ k \in 1 .. Len(config.original_columns) |->
        IF edit.file = pos /\ edit.col = k THEN edit.text ELSE config.custom_columns[k] ]

\* config = st.session_state.file_configs[file_name], created empty at first sight
config_of(configs, file_name) ==
    IF file_name \in DOMAIN configs THEN configs[file_name] ELSE << >>

\* the cleaned content of the Table Name input, whose default is the cleaned
\* file name without its extension
table_name_of(file_name, pos, names_typed) ==
    clean_table_name(IF pos \in DOMAIN names_typed THEN names_typed[pos]
                     ELSE clean_table_name(splitext(file_name)[1]))

\* current_csv_options if file_type in ['csv', 'txt'] else None
file_options(file_type, options) ==
    IF file_type \in { "csv", "txt" } THEN options ELSE NoOptions

\* the three assignments to config that every run makes
assign_config(config, table_name, file_type, csv_options) ==
    SetKey(SetKey(SetKey(config, "table_name", table_name), "file_type", file_type),
           "csv_options", csv_options)

\* one iteration of the configure loop, for the file at position pos of
\* type file_type, up to the column mapping editor
configure_loaded(configs, uploaded_file, pos, file_type, options, names_typed, xlsx, xls) ==
    Only({ IF needs_preview(config1)
           THEN Only({ load_preview(config1, df) :
                       df \in { read_file_to_dataframe(uploaded_file, file_type,
                                                       file_options(file_type, options),
                                                       xlsx, xls) } })
           ELSE config1 :
           config1 \in { assign_config(config_of(configs, uploaded_file.name),
                                       table_name_of(uploaded_file.name, pos, names_typed),
                                       file_type, file_options(file_type, options)) } })

\* the column mapping editor over config2: the config the run leaves, and
\* whether the run got past the editor
after_editor(config2, edit, pos) ==
    IF editor_raises(config2) THEN [ config |-> config2, completed |-> FALSE ]
    ELSE IF editor_shown(config2)
    THEN [ config |-> SetKey(config2, "custom_columns", edited_rename_to(config2, edit, pos)),
           completed |-> TRUE ]
    ELSE [ config |-> config2, completed |-> TRUE ]

\* the configure loop over uploaded_files from position pos on, in order:
\* [configs, completed].  An unsupported file is skipped (continue); the
\* editor's exception ends the run with the config as assigned so far.  (A
\* preview load ends the run with st.rerun(); the run that follows goes on
\* from the same session state, so the runs together do what one pass does.)
RECURSIVE configure_from(_, _, _, _, _, _, _, _)
configure_from(configs, files, pos, options, names_typed, edit, xlsx, xls) ==
    IF pos > Len(files) THEN [ configs |-> configs, completed |-> TRUE ]
    ELSE Only({
        IF file_type = None
        THEN configure_from(configs, files, pos + 1, options, names_typed, edit, xlsx, xls)
        ELSE Only({
            IF ~shown.completed
            THEN [ configs |-> (files[pos].name :> shown.config) @@ configs,
                   completed |-> FALSE ]
            ELSE configure_from((files[pos].name :> shown.config) @@ configs, files,
                                pos + 1, options, names_typed, edit, xlsx, xls) :
            shown \in { after_editor(config2, edit, pos) :
                        config2 \in { configure_loaded(configs, files[pos], pos, file_type,
                                                       options, names_typed, xlsx, xls) } } }) :
        file_type \in { get_file_type(files[pos].name, xlsx, xls) } })

-----------------------------------------------------------------------------
(* Inputs of the session *)

Name_a_csv == << "a", ".", "c", "s", "v" >>
Name_a_txt == << "a", ".", "t", "x", "t" >>
Name_b_xls == << "b", ".", "x", "l", "s" >>
SessionNames == { Name_a_csv, Name_a_txt, Name_b_xls }

Bytes_none   == << >>                                          \* an empty file
Bytes_header == << << "x", ",", "y" >> >>                      \* a header line only
Bytes_rows   == << << "x", ",", "y" >>, << "1", ",", "2" >> >> \* header and one row
\* the same, each line inside single quotes
Bytes_quoted == << << "'", "x", ",", "y", "'" >>, << "'", "1", ",", "2", "'" >> >>
SessionBytes == { Bytes_none, Bytes_header, Bytes_rows, Bytes_quoted }

Delimiters == { ",", ";" }
QuoteChars == { "\"", "'" }
TypedColumnNames == { << "k", "+" >> }
TypedTableNames  == { << "1", "-", "t" >> }

\* no upload loop has run in this script run
LoopIdle ==
    /\ pc = "idle"
    /\ idx = 0
    /\ successful_uploads = 0
    /\ status = << >>
    /\ progress = << 0, 1 >>
    /\ summary = << >>
    /\ write_attempts = {}
    /\ applied_columns = << >>

SessionStart ==
    /\ uploaded_files = << >>
    /\ csv_delimiter = ","
    /\ csv_has_header = TRUE
    /\ csv_quote_char = "\""
    /\ table_name_input = << >>
    /\ file_configs = << >>
    /\ interactions = 0
    /\ LoopIdle
    /\ tables = << >>

-----------------------------------------------------------------------------
(* Inputs of the pure functions *)

RECURSIVE SeqsUpTo(_, _)
SeqsUpTo(S, n) ==
    IF n = 0 THEN { << >> }
    ELSE LET shorter == SeqsUpTo(S, n - 1)
         IN  shorter \cup { Append(s, c) : s \in shorter, c \in S }

\* a letter in each case, a digit, whitespace, hyphen, underscore, a stripped
\* punctuation character and a printable symbol outside every class
NameChars == { "a", "Z", "7", " ", "-", "_", ".", "+" }
RawNames  == SeqsUpTo(NameChars, MaxNameLen)

StemChars == { "x", "." }
Suffixes  == { << >>, Str_csv, << ".", "C", "S", "V" >>, Str_txt, Str_xlsx,
               Str_xls, << ".", "X", "L", "S" >>, Str_comma_xls,
               << ".", "p", "d", "f" >>, << "c", "s", "v" >> }
FileNames == { stem \o suf : stem \in SeqsUpTo(StemChars, MaxStemLen), suf \in Suffixes }

-----------------------------------------------------------------------------
(* Specification of the cleaners: a raw name is cleaned, and the result is *)
(* cleaned again.                                                           *)

CleanColumn ==
    /\ Len(col_pass) < 2
    /\ col_pass' = Append(col_pass,
                      clean_column_name(IF col_pass = << >> THEN clean_in
                                        ELSE col_pass[Len(col_pass)]))
    /\ UNCHANGED << clean_in, tbl_pass, type_in, type_out, decoder_vars, session_vars >>

CleanTable ==
    /\ Len(tbl_pass) < 2
    /\ tbl_pass' = Append(tbl_pass,
                      clean_table_name(IF tbl_pass = << >> THEN clean_in
                                       ELSE tbl_pass[Len(tbl_pass)]))
    /\ UNCHANGED << clean_in, col_pass, type_in, type_out, decoder_vars, session_vars >>

InitClean ==
    /\ clean_in \in RawNames
    /\ col_pass = << >>
    /\ tbl_pass = << >>
    /\ type_in = << >>
    /\ type_out = << >>
    /\ EXCEL_SUPPORT = TRUE
    /\ XLS_SUPPORT = TRUE
    /\ SessionStart

NextClean == CleanColumn \/ CleanTable

SpecClean == InitClean /\ [][NextClean]_vars

-----------------------------------------------------------------------------
(* Specification of file type detection *)

DetectType ==
    /\ type_out = << >>
    /\ type_out' = << get_file_type(type_in, EXCEL_SUPPORT, XLS_SUPPORT) >>
    /\ UNCHANGED << clean_in, col_pass, tbl_pass, type_in, decoder_vars, session_vars >>

InitType ==
    /\ type_in \in FileNames
    /\ type_out = << >>
    /\ EXCEL_SUPPORT \in BOOLEAN
    /\ XLS_SUPPORT \in BOOLEAN
    /\ clean_in = << >>
    /\ col_pass = << >>
    /\ tbl_pass = << >>
    /\ SessionStart

NextType == DetectType

SpecType == InitType /\ [][NextType]_vars

-----------------------------------------------------------------------------
(* The upload loop: helpers *)

selected_db     == "DB"
selected_schema == "SCHEMA"
full_table_name(table_name) == << selected_db, selected_schema, table_name >>

\* faulty variant: the overrides are used whenever they are stored
resolve_columns_no_length_check(config, df) ==
    LET custom_names == IF "custom_columns" \in DOMAIN config
                        THEN config.custom_columns
                        ELSE [ k \in DOMAIN df.columns |-> clean_column_name(df.columns[k]) ]
    IN  [ k \in DOMAIN custom_names |-> clean_column_name(custom_names[k]) ]

\* the column names assigned to df.columns: the stored overrides when their
\* number matches, else the cleaned originals; cleaned (again) in both cases
resolve_columns(config, df) ==
    LET custom_names == IF "custom_columns" \in DOMAIN config
                           /\ Len(config.custom_columns) = Len(df.columns)
                        THEN config.custom_columns
                        ELSE [ k \in DOMAIN df.columns |-> clean_column_name(df.columns[k]) ]
    IN  [ k \in DOMAIN custom_names |-> clean_column_name(custom_names[k]) ]

\* df.astype(str) and the replace of the empty-like spellings by None
NoneCell == << None >>
NullSpellings == { << "<", "N", "A", ">" >>, << "n", "a", "n" >>, << "N", "a", "N" >>,
                   << "N", "o", "n", "e" >> }
coerce_cell(cell) == IF cell = << >> \/ cell \in NullSpellings THEN NoneCell ELSE cell
coerce_for_load(df, columns) ==
    [ columns |-> columns,
      rows |-> [ r \in DOMAIN df.rows |->
                   [ k \in DOMAIN df.rows[r] |-> coerce_cell(df.rows[r][k]) ] ] ]

\* faulty variant: an exception leaves the loop instead of being caught inside it
after_exception_abort(pos, total_files) == total_files + 1

\* the except clauses sit inside the loop body: after a failure the loop
\* goes on with the next file
after_exception(pos, total_files) == pos + 1

\* faulty variant: the partial and the total case are tested in the wrong order
final_status_partial_first(successful, total_files) ==
    IF successful > 0 THEN << "warning", successful, total_files >>
    ELSE IF successful = total_files THEN << "success", total_files >>
    ELSE << "error" >>

\* the final status: the message kind and the numbers its text shows
final_status(successful, total_files) ==
    IF successful = total_files THEN << "success", total_files >>
    ELSE IF successful > 0 THEN << "warning", successful, total_files >>
    ELSE << "error" >>

\* faulty variant: an existing table is left as it is
save_as_table_keep_existing(stored, name, relation) ==
    IF name \in DOMAIN stored THEN stored ELSE (name :> relation) @@ stored

\* snowpark_df.write.mode("overwrite").save_as_table(full_table_name): the
\* table of that name holds the written relation, whatever it held before
save_as_table(stored, name, relation) == (name :> relation) @@ stored

Skipped     == [ kind |-> "skipped_empty" ]
Failed(why) == [ kind |-> "failed", reason |-> why ]
Success(n)  == [ kind |-> "success", rows |-> n ]

-----------------------------------------------------------------------------
(* The session: user interactions.  Each one is a run of the script. *)

CanInteract == pc \in { "idle", "done" } /\ interactions < MaxInteractions

CurrentOptions == current_csv_options(csv_delimiter, csv_has_header, csv_quote_char)

\* the text inputs still drawn keep what was typed into them
Rendered(files, pos) ==
    pos \in 1 .. Len(files) /\ get_file_type(files[pos].name, EXCEL_SUPPORT, XLS_SUPPORT) # None
KeepRendered(typed, files) ==
    [ pos \in { q \in DOMAIN typed : Rendered(files, q) } |-> typed[pos] ]

\* a run of the script in which the upload button is not pressed
Rerun(files, delim, has_header, quote, typed, edit) ==
    /\ file_configs' = configure_from(file_configs, files, 1,
                                      current_csv_options(delim, has_header, quote),
                                      typed, edit, EXCEL_SUPPORT, XLS_SUPPORT).configs
    /\ interactions' = interactions + 1
    /\ pc' = "idle"
    /\ idx' = 0
    /\ successful_uploads' = 0
    /\ status' = << >>
    /\ progress' = << 0, 1 >>
    /\ summary' = << >>
    /\ write_attempts' = {}
    /\ applied_columns' = << >>
    /\ UNCHANGED << pure_vars, decoder_vars, tables >>

AddFile ==
    /\ CanInteract
    /\ Len(uploaded_files) < MaxFiles
    /\ \E name \in SessionNames, bytes \in SessionBytes :
         /\ uploaded_files' = Append(uploaded_files, [ name |-> name, bytes |-> bytes ])
         /\ Rerun(uploaded_files', csv_delimiter, csv_has_header, csv_quote_char,
                  table_name_input, NoEdit)
    /\ UNCHANGED << csv_delimiter, csv_has_header, csv_quote_char, table_name_input >>

RemoveFile ==
    /\ CanInteract
    /\ \E pos \in DOMAIN uploaded_files :
         /\ uploaded_files' = SubSeq(uploaded_files, 1, pos - 1)
                              \o SubSeq(uploaded_files, pos + 1, Len(uploaded_files))
         /\ table_name_input' = KeepRendered(table_name_input, uploaded_files')
         /\ Rerun(uploaded_files', csv_delimiter, csv_has_header, csv_quote_char,
                  table_name_input', NoEdit)
    /\ UNCHANGED << csv_delimiter, csv_has_header, csv_quote_char >>

ChangeCsvOptions ==
    /\ CanInteract
    /\ \E delim \in Delimiters, has_header \in BOOLEAN, quote \in QuoteChars :
         \* one widget is changed per interaction
         /\ Cardinality({ k \in 1 .. 3 :
                            << delim, has_header, quote >>[k]
                            # << csv_delimiter, csv_has_header, csv_quote_char >>[k] }) = 1
         /\ csv_delimiter' = delim
         /\ csv_has_header' = has_header
         /\ csv_quote_char' = quote
         /\ Rerun(uploaded_files, delim, has_header, quote, table_name_input, NoEdit)
    /\ UNCHANGED << uploaded_files, table_name_input >>

TypeTableName ==
    /\ CanInteract
    /\ \E pos \in DOMAIN uploaded_files, text \in TypedTableNames :
         /\ Rendered(uploaded_files, pos)
         /\ table_name_input' = (pos :> text) @@ table_name_input
         /\ Rerun(uploaded_files, csv_delimiter, csv_has_header, csv_quote_char,
                  table_name_input', NoEdit)
    /\ UNCHANGED << uploaded_files, csv_delimiter, csv_has_header, csv_quote_char >>

EditColumnName ==
    /\ CanInteract
    /\ \E pos \in DOMAIN uploaded_files, text \in TypedColumnNames :
         /\ Rendered(uploaded_files, pos)
         /\ uploaded_files[pos].name \in DOMAIN file_configs
         /\ LET config == file_configs[uploaded_files[pos].name] IN
            /\ editor_shown(config)
            /\ \E col \in DOMAIN config.original_columns :
                 Rerun(uploaded_files, csv_delimiter, csv_has_header, csv_quote_char,
                       table_name_input, [ file |-> pos, col |-> col, text |-> text ])
    /\ UNCHANGED widget_vars

\* "Upload All Files": the script runs down to the button, then the loop starts
ClickUpload ==
    /\ CanInteract
    /\ uploaded_files # << >>
    /\ \E run \in { configure_from(file_configs, uploaded_files, 1, CurrentOptions,
                                    table_name_input, NoEdit, EXCEL_SUPPORT, XLS_SUPPORT) } :
         /\ run.completed
         /\ file_configs' = run.configs
    /\ interactions' = interactions + 1
    /\ pc' = "loop"
    /\ idx' = 1
    /\ successful_uploads' = 0
    /\ status' = [ pos \in DOMAIN uploaded_files |-> << >> ]
    /\ progress' = << 0, 1 >>
    /\ summary' = << >>
    /\ write_attempts' = {}
    /\ applied_columns' = << >>
    /\ UNCHANGED << pure_vars, decoder_vars, widget_vars, tables >>

-----------------------------------------------------------------------------
(* The upload loop: one action per way through the body *)

total_files == Len(uploaded_files)
InLoop == pc = "loop" /\ idx <= total_files
LoopFile == uploaded_files[idx]
LoopConfig == file_configs[LoopFile.name]
LoopFrame == read_file_to_dataframe(LoopFile, LoopConfig.file_type, LoopConfig.csv_options,
                                    EXCEL_SUPPORT, XLS_SUPPORT)
Show(st) == [ status EXCEPT ![idx] = Append(@, st) ]

\* no configuration for the file: st.error, continue
UploadMissingConfig ==
    /\ InLoop
    /\ LoopFile.name \notin DOMAIN file_configs
    /\ status' = Show(Failed("configuration_missing"))
    /\ idx' = idx + 1
    /\ UNCHANGED << pure_vars, decoder_vars, widget_vars, file_configs, interactions,
                    pc, successful_uploads, progress, summary, write_attempts,
                    applied_columns, tables >>

\* read_file_to_dataframe raises: caught by except Exception
UploadReadError ==
    /\ InLoop
    /\ LoopFile.name \in DOMAIN file_configs
    /\ ~LoopFrame.ok
    /\ status' = Show(Failed("read_error"))
    /\ progress' = << idx, total_files >>
    /\ idx' = after_exception(idx, total_files)
    /\ UNCHANGED << pure_vars, decoder_vars, widget_vars, file_configs, interactions,
                    pc, successful_uploads, summary, write_attempts, applied_columns,
                    tables >>

\* df.empty: status_msg.warning, continue
UploadEmpty ==
    /\ InLoop
    /\ LoopFile.name \in DOMAIN file_configs
    /\ LoopFrame.ok
    /\ df_empty(LoopFrame)
    /\ status' = Show(Skipped)
    /\ idx' = idx + 1
    /\ UNCHANGED << pure_vars, decoder_vars, widget_vars, file_configs, interactions,
                    pc, successful_uploads, progress, summary, write_attempts,
                    applied_columns, tables >>

\* the frame is renamed, coerced and handed to the warehouse ...
Renamed ==
    /\ InLoop
    /\ LoopFile.name \in DOMAIN file_configs
    /\ LoopFrame.ok
    /\ ~df_empty(LoopFrame)
    /\ applied_columns' = (idx :> resolve_columns(LoopConfig, LoopFrame)) @@ applied_columns
    /\ write_attempts' = write_attempts \cup { idx }

\* ... which stores it, overwriting the table
UploadSuccess ==
    /\ Renamed
    /\ tables' = save_as_table(tables, full_table_name(LoopConfig.table_name),
                                coerce_for_load(LoopFrame, applied_columns'[idx]))
    /\ status' = Show(Success(Len(LoopFrame.rows)))
    /\ successful_uploads' = successful_uploads + 1
    /\ progress' = << idx, total_files >>
    /\ idx' = idx + 1
    /\ UNCHANGED << pure_vars, decoder_vars, widget_vars, file_configs, interactions,
                    pc, summary >>

\* ... or raises (SnowparkSQLException or another exception)
UploadWriteError ==
    /\ Renamed
    /\ status' = Show(Failed("write_error"))
    /\ progress' = << idx, total_files >>
    /\ idx' = after_exception(idx, total_files)
    /\ UNCHANGED << pure_vars, decoder_vars, widget_vars, file_configs, interactions,
                    pc, successful_uploads, summary, tables >>

\* after the loop: the final status
FinalStatus ==
    /\ pc = "loop"
    /\ idx > total_files
    /\ summary' = final_status(successful_uploads, total_files)
    /\ pc' = "done"
    /\ UNCHANGED << pure_vars, decoder_vars, widget_vars, file_configs, interactions,
                    idx, successful_uploads, status, progress, write_attempts,
                    applied_columns, tables >>

UploadLoop == UploadMissingConfig \/ UploadReadError \/ UploadEmpty
              \/ UploadSuccess \/ UploadWriteError \/ FinalStatus

\* The files of the session are .csv, .txt and .xls files: with xlrd alone
\* an .xls file is an excel file, with openpyxl as well (or with neither
\* package) it is of no supported type.
Init ==
    /\ clean_in = << >>
    /\ col_pass = << >>
    /\ tbl_pass = << >>
    /\ type_in = << >>
    /\ type_out = << >>
    /\ XLS_SUPPORT = TRUE
    /\ EXCEL_SUPPORT \in BOOLEAN
    /\ SessionStart

Next ==
    \/ AddFile
    \/ RemoveFile
    \/ ChangeCsvOptions
    \/ TypeTableName
    \/ EditColumnName
    \/ ClickUpload
    \/ UploadMissingConfig
    \/ UploadReadError
    \/ UploadEmpty
    \/ UploadSuccess
    \/ UploadWriteError
    \/ FinalStatus

Spec == Init /\ [][Next]_vars

\* the script runs the loop to its end once the button is pressed
SpecFair == Spec /\ WF_vars(UploadLoop)

-----------------------------------------------------------------------------
(* Claims about the cleaners *)

IsIdentifier(s) ==
    /\ s # << >>
    /\ s[1] \in Range(UpperLetters) \cup { "_" }
    /\ \A i \in DOMAIN s : s[i] \in IdentChars

\* C1: cleaning is idempotent for both cleaners: cleaning an already cleaned
\* column name or table name gives it back unchanged.
C1_Idempotent ==
    /\ Len(col_pass) = 2 => col_pass[2] = col_pass[1]
    /\ Len(tbl_pass) = 2 => tbl_pass[2] = tbl_pass[1]

\* a digit-leading name behind stripped punctuation, and a whitespace-only
\* name, have both been cleaned twice by both cleaners
C1_Witness ==
    /\ Len(col_pass) = 2 /\ Len(tbl_pass) = 2
    /\ clean_in = << ".", "7", " ", "a" >>
    /\ col_pass[1] = << "_", "7", "_", "A" >>

\* C2: clean_column_name always returns a non-empty string matching
\* ^[A-Z_][A-Z0-9_]*$.
C2_ColumnIsIdentifier ==
    Len(col_pass) >= 1 => IsIdentifier(col_pass[1])

-----------------------------------------------------------------------------
(* Claims about file type detection *)

\* the lowercased extension of the filename: its suffix from the final '.'
Extension(f) == splitext(lower(f))[2]

\* C3: get_file_type depends only on the lowercased suffix after the final
\* '.': csv for .csv, txt for .txt, excel for .xlsx exactly when the xlsx
\* decoder is available, excel for .xls exactly when the xls decoder is
\* available, unrecognized otherwise.
C3_TypeBySuffix ==
    type_out # << >> =>
        type_out[1] =
            ( LET suf == Extension(type_in)
              IN  IF suf = Str_csv THEN "csv"
                  ELSE IF suf = Str_txt THEN "txt"
                  ELSE IF suf = Str_xlsx /\ EXCEL_SUPPORT THEN "excel"
                  ELSE IF suf = Str_xls /\ XLS_SUPPORT THEN "excel"
                  ELSE None )

-----------------------------------------------------------------------------
(* Claims about the upload loop *)

Processed == IF pc = "idle" THEN {} ELSE { pos \in DOMAIN uploaded_files : pos < idx }
HasConfig(pos) == uploaded_files[pos].name \in DOMAIN file_configs
ConfigAt(pos) == file_configs[uploaded_files[pos].name]
\* the parse of the file at pos at upload time
FrameAt(pos) ==
    read_file_to_dataframe(uploaded_files[pos], ConfigAt(pos).file_type,
                           ConfigAt(pos).csv_options, EXCEL_SUPPORT, XLS_SUPPORT)
Loadable(pos) == HasConfig(pos) /\ FrameAt(pos).ok /\ FrameAt(pos).rows # << >>
                 /\ FrameAt(pos).columns # << >>
OverridesMatch(pos) ==
    /\ "custom_columns" \in DOMAIN ConfigAt(pos)
    /\ Len(ConfigAt(pos).custom_columns) = Len(FrameAt(pos).columns)

\* C4: at upload time the final column identifiers of a file whose parse
\* yields k columns are the cleaned overrides when k overrides are stored,
\* and the cleaned original names otherwise; there are k of them either way,
\* and a length mismatch does not fail the file.
C4_ColumnResolution ==
    \A pos \in Processed :
        Loadable(pos) =>
            /\ pos \in DOMAIN applied_columns
            /\ pos \in write_attempts
            /\ Len(applied_columns[pos]) = Len(FrameAt(pos).columns)
            /\ \A k \in DOMAIN applied_columns[pos] :
                 applied_columns[pos][k] =
                    IF OverridesMatch(pos)
                    THEN clean_column_name(ConfigAt(pos).custom_columns[k])
                    ELSE clean_column_name(FrameAt(pos).columns[k])

\* a file was loaded whose stored overrides differ in number from its columns
C4_Witness ==
    \E pos \in Processed :
        /\ Loadable(pos)
        /\ "custom_columns" \in DOMAIN ConfigAt(pos)
        /\ ~OverridesMatch(pos)
        /\ status[pos] = << Success(Len(FrameAt(pos).rows)) >>

SuccessCount == Cardinality({ pos \in DOMAIN status :
                                \E k \in DOMAIN status[pos] : status[pos][k].kind = "success" })
ZeroRows(pos) == HasConfig(pos) /\ FrameAt(pos).ok /\ FrameAt(pos).rows = << >>

\* C5: a file whose parse yields zero rows is reported as skipped-empty, no
\* warehouse write is attempted for it, and it is not counted as successful.
C5_EmptyNotWritten ==
    /\ \A pos \in Processed :
          ZeroRows(pos) => /\ status[pos] = << Skipped >>
                           /\ pos \notin write_attempts
    /\ pc # "idle" => successful_uploads = SuccessCount

\* a header-only file has been passed by the loop
C5_Witness ==
    \E pos \in Processed : ZeroRows(pos) /\ FrameAt(pos).columns # << >>

TerminalKinds == { "success", "skipped_empty", "failed" }
OneTerminalStatus(pos) == Len(status[pos]) = 1 /\ status[pos][1].kind \in TerminalKinds

\* the files before the loop position have one terminal status each, the
\* others none yet; with the summary every file has one
C6_OneStatusEach ==
    /\ pc = "loop" => \A pos \in DOMAIN uploaded_files :
                         IF pos < idx THEN OneTerminalStatus(pos) ELSE status[pos] = << >>
    /\ pc = "done" => /\ summary # << >>
                      /\ \A pos \in DOMAIN uploaded_files : OneTerminalStatus(pos)

\* a step of the loop passes exactly one file, the next in upload order,
\* whatever its outcome
C6_InOrder ==
    (pc = "loop" /\ pc' = "loop") => (idx' = idx + 1 /\ idx <= total_files)

\* C6: the upload loop visits every file of the batch in order, each file
\* ends with exactly one terminal status, a failure never prevents a later
\* file from being processed, and the loop always ends with a batch summary.
C6_EveryFileOneStatus ==
    /\ []C6_OneStatusEach
    /\ [][C6_InOrder]_vars
    /\ (pc = "loop") ~> (pc = "done")

\* a batch has ended in which a file failed and a later file was loaded
C6_Witness ==
    /\ pc = "done"
    /\ \E pos, later \in DOMAIN uploaded_files :
         /\ pos < later
         /\ status[pos][1].kind = "failed"
         /\ status[later][1].kind = "success"

Kinds(st) == [ pos \in DOMAIN st |-> st[pos][1].kind ]
CountOf(kinds, kind) == Cardinality({ pos \in DOMAIN kinds : kinds[pos] = kind })

\* C7: the batch summary aggregates the count of each terminal status: the
\* numbers of succeeded, skipped-empty and failed files can each be read
\* off it, so no other outcome of the batch would show the same summary
\* with different counts.
C7_SummaryCountsEachStatus ==
    pc = "done" =>
        \A other \in [ DOMAIN uploaded_files -> TerminalKinds ] :
            final_status(CountOf(other, "success"), total_files) = summary
            => \A kind \in TerminalKinds :
                 CountOf(other, kind) = CountOf(Kinds(status), kind)

\* C7 (amended): the batch summary reports the number of files that
\* succeeded against the number of files of the batch, and nothing else: it
\* says "all n" when all n succeeded, "k/n" when 0 < k < n succeeded, and
\* "none" when none did, whether the others were skipped or failed.
C7_SummaryCountsSuccess ==
    pc = "done" =>
        LET k == CountOf(Kinds(status), "success")
            n == Len(uploaded_files)
        IN  /\ k = n => summary = << "success", n >>
            /\ (0 < k /\ k < n) => summary = << "warning", k, n >>
            /\ k = 0 => summary = << "error" >>

\* a batch of one loaded and one skipped file has ended
C7_Witness ==
    /\ pc = "done"
    /\ CountOf(Kinds(status), "success") = 1
    /\ CountOf(Kinds(status), "skipped_empty") = 1

-----------------------------------------------------------------------------
(* Claims about the per-file configuration *)

\* the parse of the file at pos under the options now set in the sidebar
FrameNow(pos) ==
    LET file_type == get_file_type(uploaded_files[pos].name, EXCEL_SUPPORT, XLS_SUPPORT)
    IN  read_file_to_dataframe(uploaded_files[pos], file_type,
                               IF file_type \in { "csv", "txt" } THEN CurrentOptions
                               ELSE NoOptions,
                               EXCEL_SUPPORT, XLS_SUPPORT)

\* C8: the cached parse result of a file is recomputed whenever the file's
\* bytes or the format options change: the stored original_columns,
\* num_rows and preview of a file (the only one of its name in the batch)
\* equal what parsing the current bytes under the current options yields.
C8_CacheFollowsInputs ==
    \A pos \in DOMAIN uploaded_files :
        ( /\ HasConfig(pos) /\ "original_columns" \in DOMAIN ConfigAt(pos)
          /\ \A other \in DOMAIN uploaded_files :
                uploaded_files[other].name = uploaded_files[pos].name => other = pos ) =>
            /\ FrameNow(pos).ok
            /\ ConfigAt(pos).original_columns = FrameNow(pos).columns
            /\ ConfigAt(pos).num_rows = Len(FrameNow(pos).rows)
            /\ ConfigAt(pos).preview_head
                 = SubSeq(FrameNow(pos).rows, 1, Min(PreviewRows, Len(FrameNow(pos).rows)))

BatchNames == { uploaded_files[pos].name : pos \in DOMAIN uploaded_files }

\* C9: a configuration entry is discarded when its file is removed from the
\* batch: file_configs has no key that is not the name of an uploaded file.
C9_ConfigsOfBatchOnly ==
    DOMAIN file_configs \subseteq BatchNames

\* C10: every configuration that has column overrides has as many of them
\* as it has original column names.
C10_OverridesMatchOriginals ==
    \A name \in DOMAIN file_configs :
        "custom_columns" \in DOMAIN file_configs[name] =>
            /\ "original_columns" \in DOMAIN file_configs[name]
            /\ Len(file_configs[name].custom_columns)
                 = Len(file_configs[name].original_columns)

\* a column has been renamed in the editor, and the format options have
\* been changed since the preview was loaded
C10_Witness ==
    \E name \in DOMAIN file_configs :
        /\ "custom_columns" \in DOMAIN file_configs[name]
        /\ Len(file_configs[name].custom_columns) = 2
        /\ \E k \in 1 .. 2 : file_configs[name].custom_columns[k] \in TypedColumnNames
        /\ file_configs[name].file_type = "csv"
        /\ file_configs[name].csv_options.field_delimiter = ";"

-----------------------------------------------------------------------------
(* Claims about the table name *)

\* the table form of an input, as the specification words it: trimmed and
\* uppercased, every character outside [A-Z0-9_] replaced by an underscore,
\* an underscore ahead of a leading digit, UNNAMED_TABLE for an empty result
TableForm(input) ==
    LET trimmed  == upper(strip(input))
        replaced == [ i \in DOMAIN trimmed |->
                        IF trimmed[i] \in IdentChars THEN trimmed[i] ELSE "_" ]
    IN  IF replaced = << >> THEN UNNAMED_TABLE
        ELSE IF replaced[1] \in Digits THEN << "_" >> \o replaced
        ELSE replaced

\* the position whose iteration assigned last to the config of name
LastPosOf(name) ==
    CHOOSE pos \in DOMAIN uploaded_files :
        /\ uploaded_files[pos].name = name
        /\ \A later \in DOMAIN uploaded_files :
              uploaded_files[later].name = name => later <= pos

\* the content of the Table Name input at pos: what was typed, else the default
TableNameInput(pos) ==
    IF pos \in DOMAIN table_name_input THEN table_name_input[pos]
    ELSE TableForm(splitext(uploaded_files[pos].name)[1])

\* C11: the table name stored in every configuration is an identifier, it
\* is the table form of the content of the file's Table Name input, and it
\* names the table a loaded file was written to.
C11_TableNameIsCleanedInput ==
    /\ \A name \in DOMAIN file_configs :
          /\ IsIdentifier(file_configs[name].table_name)
          /\ name \in BatchNames =>
                file_configs[name].table_name = TableForm(TableNameInput(LastPosOf(name)))
    /\ \A pos \in Processed :
          (status[pos] # << >> /\ status[pos][1].kind = "success") =>
              full_table_name(ConfigAt(pos).table_name) \in DOMAIN tables

\* a digit-leading name with a hyphen was typed, and a file was loaded into
\* the table of the cleaned name
C11_Witness ==
    \E pos \in Processed :
        /\ pos \in DOMAIN table_name_input
        /\ table_name_input[pos] = << "1", "-", "t" >>
        /\ status[pos] # << >> /\ status[pos][1].kind = "success"
        /\ ConfigAt(pos).table_name = << "_", "1", "_", "T" >>
        /\ full_table_name(<< "_", "1", "_", "T" >>) \in DOMAIN tables

-----------------------------------------------------------------------------
(* Claims about runs of whitespace and hyphens in a column name *)

\* s without its leading run of whitespace and hyphen characters
RECURSIVE drop_run(_)
drop_run(s) ==
    IF s # << >> /\ Head(s) \in Whitespace \cup { Hyphen } THEN drop_run(Tail(s)) ELSE s

\* every maximal run of whitespace or hyphen characters replaced by one underscore
RECURSIVE collapse_runs(_)
collapse_runs(s) ==
    IF s = << >> THEN << >>
    ELSE IF Head(s) \in Whitespace \cup { Hyphen }
    THEN << "_" >> \o collapse_runs(drop_run(s))
    ELSE << Head(s) >> \o collapse_runs(Tail(s))

\* C12: clean_column_name collapses every maximal run of whitespace or
\* hyphen characters into a single underscore: the cleaned name is what the
\* other steps make of the trimmed, uppercased name with each such run
\* replaced by one underscore.
C12_RunsCollapse ==
    Len(col_pass) >= 1 =>
        col_pass[1] = or_unnamed_column(prefix_digit(strip_punct(
                          collapse_runs(upper(strip(clean_in))))))

-----------------------------------------------------------------------------
(* Claims about the progress indicator *)

\* C13: progress is surfaced after each file whatever its outcome: once the
\* loop has gone past i files of n the progress indicator stands at i/n,
\* and at 1 when the batch has finished.
C13_ProgressAfterEachFile ==
    /\ (pc \in { "loop", "done" } /\ idx > 1) => progress = << idx - 1, total_files >>
    /\ pc = "done" => progress[1] = progress[2]

-----------------------------------------------------------------------------
(* Claims about files that share a target table *)

Succeeded(pos) == pos \in Processed /\ status[pos] # << >> /\ status[pos][1].kind = "success"
TargetOf(pos) == full_table_name(ConfigAt(pos).table_name)
RelationOf(pos) == coerce_for_load(FrameAt(pos), applied_columns[pos])

\* the last file of the batch, so far, that was loaded into the target of pos
LastInto(pos) ==
    CHOOSE last \in Processed :
        /\ Succeeded(last) /\ TargetOf(last) = TargetOf(pos)
        /\ \A other \in Processed :
              (Succeeded(other) /\ TargetOf(other) = TargetOf(pos)) => other <= last

\* C14: files of a batch that resolve to the same target table are each
\* written in upload order with overwrite mode: the table holds the
\* relation of the last of them, every one of them is counted in
\* successful_uploads, and a batch in which all files loaded is summarised
\* as all files uploaded.
C14_LaterFileOverwrites ==
    /\ \A pos \in Processed :
          Succeeded(pos) =>
              /\ TargetOf(pos) \in DOMAIN tables
              /\ tables[TargetOf(pos)] = RelationOf(LastInto(pos))
    /\ pc \in { "loop", "done" } =>
          successful_uploads = Cardinality({ pos \in Processed : Succeeded(pos) })
    /\ (pc = "done" /\ \A pos \in DOMAIN uploaded_files : Succeeded(pos)) =>
          summary = << "success", Len(uploaded_files) >>

\* a batch of two files with the same target has ended: both were loaded,
\* the table holds the relation of the second, which differs from that of
\* the first, and the summary says all files were uploaded
C14_Witness ==
    /\ pc = "done"
    /\ Len(uploaded_files) = 2
    /\ Succeeded(1) /\ Succeeded(2)
    /\ TargetOf(1) = TargetOf(2)
    /\ RelationOf(1) # RelationOf(2)
    /\ tables[TargetOf(1)] = RelationOf(2)
    /\ successful_uploads = 2
    /\ summary = << "success", 2 >>

=============================================================================
